---- MODULE Spec2Model ----
(***************************************************************************)
(* Model of the Game of Life engine in src/src/lib.rs: the Universe (a     *)
(* width x height grid of Dead/Alive cells kept row-major in `cells`) and  *)
(* its operations new, restart, tick, toggle_cell, toggle_live_cell,       *)
(* create_glider and create_pulsar_gerator, as called by a host in any     *)
(* single-threaded order.                                                  *)
(*                                                                         *)
(* The grid is scaled down (GridHeight x GridWidth instead of 128 x 128)   *)
(* and machine words are WordBits wide instead of 32, so that TLC can      *)
(* enumerate the states; unsigned arithmetic keeps its wrap-around.        *)
(* Rust's integer overflow is build dependent: with overflow checks (the   *)
(* debug profile) `row - 2` below zero panics, without them (the release   *)
(* profile) it wraps.  The two builds behave alike until the first         *)
(* overflow, so overflow_checks stays "undetermined" until then and is     *)
(* "on" or "off" for the rest of the run.                                  *)
(***************************************************************************)
EXTENDS Integers, Sequences, FiniteSets, TLC

\* ---------------------------------------------------------------- bounds
\* Scaled-down stand-ins for `let height = 128` and `let width = 128`.
GridHeight == 4
GridWidth == 4
\* Width of the unsigned coordinate type (u32 in the source).
WordBits == 8
\* Number of host calls explored after construction.
MaxSteps == 2

\* ---------------------------------------------------------------- cells
\* enum Cell { Dead = 0, Alive = 1 }
Dead == 0
Alive == 1
Cell == {Dead, Alive}

\* Mutant of toggle: the Alive arm is missing, the cell is set Alive.
toggle_stuck(cell) == Alive

\* Cell::toggle
toggle(cell) == IF cell = Dead THEN Alive ELSE Dead

\* ------------------------------------------------- unsigned arithmetic
WordModulus == 2 ^ WordBits
WordMax == WordModulus - 1

\* a + d for an unsigned a and a literal offset d (d < 0 is a subtraction):
\* the value a build without overflow checks produces
wrapping(a, d) == (a + d + WordModulus) % WordModulus

\* whether a + d leaves the unsigned range (a panic under overflow checks)
overflows(a, d) == a + d < 0 \/ a + d > WordMax

\* ---------------------------------------------------------------- index
\* Universe::normalize_coordinate; row and col are unsigned, so the
\* `< 0` branches are written as in the source and never taken.
normalize_coordinate(row, col, w, h) ==
    << IF row < 0 THEN h - 1 ELSE IF row > h - 1 THEN 0 ELSE row,
       IF col < 0 THEN w - 1 ELSE IF col > w - 1 THEN 0 ELSE col >>

\* Universe::get_index
get_index(row, column, w, h) ==
    LET n == normalize_coordinate(row, column, w, h)
    IN  n[1] * w + n[2]

\* ------------------------------------------------------ neighbour count
\* Mutant of live_neighbor_count: north is `row - 1` without the row == 0
\* test, so that row 0 wraps around the word and is normalised to 0.
live_neighbor_count_unwrapped(c, row, column, w, h) ==
    LET north == wrapping(row, -1)
        south == IF row = h - 1 THEN 0 ELSE row + 1
        west  == IF column = 0 THEN w - 1 ELSE column - 1
        east  == IF column = w - 1 THEN 0 ELSE column + 1
    IN    c[get_index(north, west, w, h)]
        + c[get_index(north, column, w, h)]
        + c[get_index(north, east, w, h)]
        + c[get_index(row, west, w, h)]
        + c[get_index(row, east, w, h)]
        + c[get_index(south, west, w, h)]
        + c[get_index(south, column, w, h)]
        + c[get_index(south, east, w, h)]

\* Universe::live_neighbor_count: the eight reads in the source's order
\* (nw, n, ne, w, e, sw, s, se), each through get_index.
live_neighbor_count(c, row, column, w, h) ==
    LET north == IF row = 0 THEN h - 1 ELSE row - 1
        south == IF row = h - 1 THEN 0 ELSE row + 1
        west  == IF column = 0 THEN w - 1 ELSE column - 1
        east  == IF column = w - 1 THEN 0 ELSE column + 1
    IN    c[get_index(north, west, w, h)]
        + c[get_index(north, column, w, h)]
        + c[get_index(north, east, w, h)]
        + c[get_index(row, west, w, h)]
        + c[get_index(row, east, w, h)]
        + c[get_index(south, west, w, h)]
        + c[get_index(south, column, w, h)]
        + c[get_index(south, east, w, h)]

\* ------------------------------------------------------------------ tick
\* Mutant of next_cell: rule 4 fires for up to three neighbours.
next_cell_overborn(cell, live_neighbors) ==
    IF cell = Alive /\ live_neighbors < 2 THEN Dead
    ELSE IF cell = Alive /\ live_neighbors \in {2, 3} THEN Alive
    ELSE IF cell = Alive /\ live_neighbors > 3 THEN Dead
    ELSE IF cell = Dead /\ live_neighbors <= 3 THEN Alive
    ELSE cell

\* the `match (cell, live_neighbors)` of Universe::tick, arm by arm
next_cell(cell, live_neighbors) ==
    IF cell = Alive /\ live_neighbors < 2 THEN Dead
    ELSE IF cell = Alive /\ live_neighbors \in {2, 3} THEN Alive
    ELSE IF cell = Alive /\ live_neighbors > 3 THEN Dead
    ELSE IF cell = Dead /\ live_neighbors = 3 THEN Alive
    ELSE cell

\* number of (row, col) pairs visited by
\* `for row in range..height { for col in range..width`
tick_iterations(w, h, range) ==
    IF range < h /\ range < w THEN (h - range) * (w - range) ELSE 0

\* the nested loops of Universe::tick from their k-th iteration on: `cur`
\* is self.cells (read only), `next` the clone that is written.
RECURSIVE new_generation(_, _, _, _, _, _)
new_generation(cur, next, w, h, range, k) ==
    IF k >= tick_iterations(w, h, range) THEN next
    ELSE LET row == range + (k \div (w - range))
             col == range + (k % (w - range))
             idx == get_index(row, col, w, h)
             cell == cur[idx]
             live_neighbors == live_neighbor_count(cur, row, col, w, h)
         IN  new_generation(cur,
                            [next EXCEPT ![idx] = next_cell(cell, live_neighbors)],
                            w, h, range, k + 1)

\* Mutant of tick: the generation is computed in place, so a cell sees the
\* already updated state of the cells before it.
RECURSIVE new_generation_in_place(_, _, _, _, _)
new_generation_in_place(next, w, h, range, k) ==
    IF k >= tick_iterations(w, h, range) THEN next
    ELSE LET row == range + (k \div (w - range))
             col == range + (k % (w - range))
             idx == get_index(row, col, w, h)
             cell == next[idx]
             live_neighbors == live_neighbor_count(next, row, col, w, h)
         IN  new_generation_in_place(
                 [next EXCEPT ![idx] = next_cell(cell, live_neighbors)],
                 w, h, range, k + 1)

tick_in_place(c, w, h, range) == new_generation_in_place(c, w, h, range, 0)

\* Mutant of tick: the loops start at 0 whatever the range.
tick_ignores_range(c, w, h, range) == new_generation(c, c, w, h, 0, 0)

\* Universe::tick: next = self.cells.clone(); loops; self.cells = next
tick(c, w, h, range) == new_generation(c, c, w, h, range, 0)

\* ------------------------------------------------------ toggle_live_cell
\* the nested loops of Universe::toggle_live_cell from the k-th iteration,
\* reading and writing self.cells in place
RECURSIVE invert_from(_, _, _, _)
invert_from(c, w, h, k) ==
    IF k >= h * w THEN c
    ELSE LET row == k \div w
             col == k % w
             idx == get_index(row, col, w, h)
             cell == IF c[idx] = Dead THEN Alive ELSE Dead
         IN  invert_from([c EXCEPT ![idx] = cell], w, h, k + 1)

\* Mutant of toggle_live_cell: the row loop starts at 1.
toggle_live_cell_skips_row(c, w, h) == invert_from(c, w, h, w)

\* Universe::toggle_live_cell
toggle_live_cell(c, w, h) == invert_from(c, w, h, 0)

\* ------------------------------------------------ calls that take (row, col)
\* The running state of one call: the buffer, whether the call panicked,
\* the buffer indices it has used so far, and whether one of its unsigned
\* additions or subtractions overflowed.
start(c) == [cells |-> c, fault |-> FALSE, acc |-> {}, ovf |-> FALSE]

\* self.cells[idx] = v : a bounds-checked write
write_cell(e, idx, v) ==
    IF e.fault THEN e
    ELSE IF idx \notin DOMAIN e.cells
         THEN [e EXCEPT !.fault = TRUE, !.acc = @ \cup {idx}]
         ELSE [e EXCEPT !.cells[idx] = v, !.acc = @ \cup {idx}]

\* Universe::toggle_cell
toggle_cell(c, row, column, w, h) ==
    LET idx == get_index(row, column, w, h)
        e == start(c)
    IN  IF idx \notin DOMAIN c
        THEN [e EXCEPT !.fault = TRUE, !.acc = {idx}]
        ELSE write_cell(e, idx, toggle(c[idx]))

\* Universe::create_glider: the three indices are computed first (col + 1
\* and col + 2 may overflow), then the three writes follow.
create_glider(c, row, col, w, h, checks) ==
    LET e == [start(c) EXCEPT !.ovf = overflows(col, 1) \/ overflows(col, 2)]
    IN  IF checks /\ e.ovf
        THEN [e EXCEPT !.fault = TRUE]
        ELSE LET idx1 == get_index(row, col, w, h)
                 idx2 == get_index(row, wrapping(col, 1), w, h)
                 idx3 == get_index(row, wrapping(col, 2), w, h)
             IN  write_cell(write_cell(write_cell(e, idx1, Alive), idx2, Alive),
                            idx3, Alive)

\* The statements of Universe::create_pulsar_gerator in program order:
\* <<row offset, column offset, value written>>.
pulsar_writes ==
    << <<0, 0, Dead>>,
       <<-2, 0, Alive>>, <<2, 0, Alive>>, <<1, 0, Alive>>, <<-1, 0, Alive>>,
       <<0, 1, Alive>>, <<0, -1, Alive>>,
       <<1, 1, Alive>>, <<1, -1, Alive>>, <<-1, 1, Alive>>, <<-1, -1, Alive>> >>

\* index = self.get_index(row + dr, col + dc); self.cells[index] = v
stamp(e, row, col, wr, w, h, checks) ==
    IF e.fault THEN e
    ELSE LET o == overflows(row, wr[1]) \/ overflows(col, wr[2])
             f == [e EXCEPT !.ovf = @ \/ o]
         IN  IF checks /\ o
             THEN [f EXCEPT !.fault = TRUE]
             ELSE write_cell(f, get_index(wrapping(row, wr[1]), wrapping(col, wr[2]),
                                          w, h),
                             wr[3])

RECURSIVE stamp_from(_, _, _, _, _, _, _)
stamp_from(e, k, row, col, w, h, checks) ==
    IF k > Len(pulsar_writes) THEN e
    ELSE stamp_from(stamp(e, row, col, pulsar_writes[k], w, h, checks),
                    k + 1, row, col, w, h, checks)

\* Universe::create_pulsar_gerator
create_pulsar_gerator(c, row, col, w, h, checks) ==
    stamp_from(start(c), 1, row, col, w, h, checks)

\* ------------------------------------------------------- random source
\* The outcomes of `js_sys::Math::random() < 0.5` for the n cells of one
\* new() or restart(): a few representative draws out of the 2^n possible.
random_draws(n) ==
    { [i \in 0..(n - 1) |-> FALSE],
      [i \in 0..(n - 1) |-> TRUE],
      [i \in 0..(n - 1) |-> i = 0],
      [i \in 0..(n - 1) |-> i % 3 = 1] }

\* Mutant of random_cells: the range is one short.
random_cells_short(w, h) ==
    { [i \in 0..(w * h - 2) |-> IF d[i] THEN Alive ELSE Dead] : d \in random_draws(w * h) }

\* (0..width * height).map(|_i| if random() < 0.5 { Alive } else { Dead })
random_cells(w, h) ==
    { [i \in 0..(w * h - 1) |-> IF d[i] THEN Alive ELSE Dead] : d \in random_draws(w * h) }

\* ------------------------------------------------------------------ state
VARIABLES
    width,            \* Universe.width
    height,           \* Universe.height
    cells,            \* Universe.cells, index -> Cell
    overflow_checks,  \* build profile: "on" panics on integer overflow, "off"
                      \* wraps, "undetermined" before the first overflow
    fault,            \* the last call panicked
    acc,              \* buffer indices used by the last (row, col) call
    last,             \* the last call and its arguments
    prev,             \* cells before the last call
    last2,            \* the call before the last one
    prev2,            \* cells before that call
    steps             \* number of calls made since construction

vars == <<width, height, cells, overflow_checks, fault, acc, last, prev,
          last2, prev2, steps>>

call(op, row, col, range) == [op |-> op, row |-> row, col |-> col, range |-> range]

\* coordinates outside the grid that a host may pass
outside_inputs == { <<height, 0>>, <<0, width>>, <<WordMax, WordMax>> }

\* coordinates passed to toggle_cell: every cell of the grid, and some
\* outside it
coord_inputs == ((0..(height - 1)) \X (0..(width - 1))) \cup outside_inputs

\* coordinates passed to the stamps: a cell whose offsets all stay inside
\* the grid, the cells along the edges where `row - 2`, `col - 1`,
\* `row + 2` or `col + 2` leave it, and some outside it
stamp_inputs ==
    { <<height - 2, width - 3>>, <<0, 0>>, <<1, width - 1>>,
      <<height - 1, width - 2>>, <<height - 1, width - 1>> }
    \cup outside_inputs

range_inputs == 0..(IF height > width THEN height ELSE width)

\* Universe::new
Init ==
    /\ width = GridWidth
    /\ height = GridHeight
    /\ cells \in random_cells(GridWidth, GridHeight)
    /\ overflow_checks = "undetermined"
    /\ fault = FALSE
    /\ acc = {}
    /\ last = call("new", 0, 0, 0)
    /\ last2 = call("new", 0, 0, 0)
    /\ prev = cells
    /\ prev2 = cells
    /\ steps = 0

\* what every call does to the history; a panic ends the session
enter(c) ==
    /\ ~fault
    /\ steps < MaxSteps
    /\ steps' = steps + 1
    /\ last' = c
    /\ last2' = last
    /\ prev' = cells
    /\ prev2' = prev
    /\ UNCHANGED <<width, height>>

CallRestart ==
    /\ enter(call("restart", 0, 0, 0))
    /\ cells' \in random_cells(width, height)
    /\ fault' = FALSE
    /\ acc' = {}
    /\ UNCHANGED overflow_checks

CallTick ==
    \E range \in range_inputs :
        /\ enter(call("tick", 0, 0, range))
        /\ cells' = tick(cells, width, height, range)
        /\ fault' = FALSE
        /\ acc' = {}
        /\ UNCHANGED overflow_checks

CallToggleLiveCell ==
    /\ enter(call("toggle_live_cell", 0, 0, 0))
    /\ cells' = toggle_live_cell(cells, width, height)
    /\ fault' = FALSE
    /\ acc' = {}
    /\ UNCHANGED overflow_checks

\* the builds the run so far is consistent with
profiles ==
    IF overflow_checks = "undetermined" THEN BOOLEAN ELSE {overflow_checks = "on"}

finish(e, checks) ==
    /\ cells' = e.cells
    /\ fault' = e.fault
    /\ acc' = e.acc
    /\ overflow_checks' = IF e.ovf THEN (IF checks THEN "on" ELSE "off")
                           ELSE overflow_checks

CallToggleCell ==
    \E rc \in coord_inputs :
        /\ enter(call("toggle_cell", rc[1], rc[2], 0))
        /\ finish(toggle_cell(cells, rc[1], rc[2], width, height), FALSE)

CallCreateGlider ==
    \E rc \in stamp_inputs, checks \in profiles :
        /\ enter(call("create_glider", rc[1], rc[2], 0))
        /\ finish(create_glider(cells, rc[1], rc[2], width, height, checks), checks)

CallCreatePulsarGerator ==
    \E rc \in stamp_inputs, checks \in profiles :
        /\ enter(call("create_pulsar_gerator", rc[1], rc[2], 0))
        /\ finish(create_pulsar_gerator(cells, rc[1], rc[2], width, height, checks),
                  checks)

Next ==
    \/ CallRestart
    \/ CallTick
    \/ CallToggleLiveCell
    \/ CallToggleCell
    \/ CallCreateGlider
    \/ CallCreatePulsarGerator

Spec == Init /\ [][Next]_vars

\* ------------------------------------------------- reference definitions
\* What the claims below compare the code against: the torus with
\* coordinates taken modulo the dimensions, and Conway's rule.
InGrid(row, col) == row \in 0..(height - 1) /\ col \in 0..(width - 1)

Indices == 0..(width * height - 1)

Offsets == { d \in (-1..1) \X (-1..1) : d # <<0, 0>> }

\* index of the cell at offset (dr, dc) from (row, col) on the torus
TorusIndex(row, col, dr, dc) ==
    ((row + dr + height) % height) * width + ((col + dc + width) % width)

TorusCount(c, row, col) ==
    Cardinality({ d \in Offsets : c[TorusIndex(row, col, d[1], d[2])] = Alive })

Conway(c, i) ==
    LET n == TorusCount(c, i \div width, i % width)
    IN  IF (c[i] = Alive /\ n \in {2, 3}) \/ (c[i] = Dead /\ n = 3) THEN Alive ELSE Dead

AllDead(c) == \A i \in DOMAIN c : c[i] = Dead

RECURSIVE SumCounts(_, _)
SumCounts(c, k) ==
    IF k >= width * height THEN 0
    ELSE live_neighbor_count(c, k \div width, k % width, width, height)
         + SumCounts(c, k + 1)

\* ---------------------------------------------------------------- claims

\* C1: tick with range 0 replaces the grid by the Conway next generation of
\* the grid as it was before the tick: a cell is Alive afterwards iff it was
\* Alive with 2 or 3 live neighbours or Dead with exactly 3, all counts
\* taken from the old grid.
C1_TickIsConway ==
    (last.op = "tick" /\ last.range = 0)
        => cells = [i \in Indices |-> Conway(prev, i)]

C1_Witness ==
    /\ last.op = "tick" /\ last.range = 0
    /\ \E i \in Indices : prev[i] = Dead /\ cells[i] = Alive
    /\ \E i \in Indices : prev[i] = Alive /\ cells[i] = Dead
    /\ \E i \in Indices : prev[i] = Alive /\ cells[i] = Alive

\* C3: after new() and after any sequence of calls the dimensions are the
\* constructed ones and the buffer has exactly width * height entries, each
\* Dead or Alive.
C3_Shape ==
    /\ width = GridWidth
    /\ height = GridHeight
    /\ DOMAIN cells = 0..(width * height - 1)
    /\ \A i \in DOMAIN cells : cells[i] \in Cell

C3_Witness ==
    /\ steps >= 2
    /\ last.op # last2.op
    /\ cells # prev
    /\ prev # prev2

\* C6: the live_neighbor_count that tick takes of a grid is, for every cell,
\* the number of Alive cells among the eight torus neighbours; it lies in
\* 0..8, the counts of all cells add up to eight times the number of Alive
\* cells, and with only (0,0) Alive the far corner counts 1.
C6_NeighbourCount ==
    last.op = "tick"
        => /\ \A row \in 0..(height - 1), col \in 0..(width - 1) :
                 /\ live_neighbor_count(prev, row, col, width, height)
                       = TorusCount(prev, row, col)
                 /\ live_neighbor_count(prev, row, col, width, height) \in 0..8
           /\ SumCounts(prev, 0)
                 = 8 * Cardinality({ i \in Indices : prev[i] = Alive })
           /\ (\A i \in Indices : prev[i] = Alive <=> i = 0)
                 => live_neighbor_count(prev, height - 1, width - 1, width, height) = 1

C6_Witness ==
    /\ last.op = "tick"
    /\ \A i \in Indices : prev[i] = Alive <=> i = 0
    /\ live_neighbor_count(prev, height - 1, width - 1, width, height) = 1
    /\ live_neighbor_count(prev, 0, 0, width, height) = 0

\* C7: toggle_cell(row, col) with an in-range (row, col) flips the cell at
\* row * width + col and nothing else; doing it twice in a row restores the
\* grid.
C7_ToggleCell ==
    (last.op = "toggle_cell" /\ InGrid(last.row, last.col))
        => /\ ~fault
           /\ \A i \in Indices :
                 IF i = last.row * width + last.col
                 THEN cells[i] # prev[i] /\ cells[i] \in Cell
                 ELSE cells[i] = prev[i]
           /\ last2 = last => cells = prev2

C7_Witness ==
    /\ last.op = "toggle_cell" /\ InGrid(last.row, last.col)
    /\ last2 = last
    /\ last.row = height - 1 /\ last.col = width - 1
    /\ cells = prev2
    /\ cells # prev

\* C8: toggle_live_cell flips every cell; doing it twice in a row restores
\* the grid.
C8_ToggleLiveCell ==
    last.op = "toggle_live_cell"
        => /\ \A i \in Indices : cells[i] = 1 - prev[i]
           /\ last2.op = "toggle_live_cell" => cells = prev2

C8_Witness ==
    /\ last.op = "toggle_live_cell" /\ last2.op = "toggle_live_cell"
    /\ cells = prev2
    /\ \E i, j \in Indices : prev[i] = Alive /\ prev[j] = Dead

\* C9: an all-Dead grid stays all-Dead under tick; a cell can only become
\* Alive again through restart, a toggle or a stamp.
C9_AllDeadFixedPoint ==
    (AllDead(prev) /\ ~AllDead(cells))
        => last.op \in {"restart", "toggle_cell", "toggle_live_cell",
                        "create_glider", "create_pulsar_gerator"}

C9_Witness ==
    /\ last.op = "tick" /\ last2.op = "tick"
    /\ AllDead(prev2) /\ AllDead(prev) /\ AllDead(cells)

\* C10: tick(range) with range > 0 leaves the cells of rows and columns
\* below range as they were and gives every other cell its Conway next
\* state from the whole old grid; with range >= height or range >= width
\* nothing changes.
C10_TickRange ==
    (last.op = "tick" /\ last.range > 0)
        => /\ \A i \in Indices :
                 cells[i] = IF (i \div width) < last.range \/ (i % width) < last.range
                            THEN prev[i]
                            ELSE Conway(prev, i)
           /\ (last.range >= height \/ last.range >= width) => cells = prev

C10_Witness ==
    /\ last.op = "tick" /\ last.range = 1
    /\ cells # prev
    /\ \E i \in Indices :
          /\ (i \div width) < last.range \/ (i % width) < last.range
          /\ cells[i] = prev[i]
          /\ Conway(prev, i) # prev[i]

\* C2: toggle_cell, create_glider and create_pulsar_gerator complete
\* without a fault for every unsigned row and column, and every buffer
\* index they use lies in [0, width * height).
C2_NoFault ==
    last.op \in {"toggle_cell", "create_glider", "create_pulsar_gerator"}
        => ~fault /\ acc \subseteq Indices

\* the ten offsets of the pulsar stamp
PulsarOffsets ==
    { <<-2, 0>>, <<2, 0>>, <<1, 0>>, <<-1, 0>>, <<0, 1>>, <<0, -1>>,
      <<1, 1>>, <<1, -1>>, <<-1, 1>>, <<-1, -1>> }

\* C4: create_pulsar_gerator(row, col) with an in-range (row, col) sets the
\* centre Dead, sets Alive exactly the ten offset cells with coordinates
\* taken modulo height and width, and leaves every other cell unchanged.
C4_PulsarModular ==
    (last.op = "create_pulsar_gerator" /\ InGrid(last.row, last.col))
        => /\ ~fault
           /\ cells = [i \in Indices |->
                          IF i = last.row * width + last.col THEN Dead
                          ELSE IF \E d \in PulsarOffsets :
                                     i = TorusIndex(last.row, last.col, d[1], d[2])
                               THEN Alive
                               ELSE prev[i]]

\* C5: create_glider(row, col) with an in-range (row, col) sets Alive
\* exactly (row, col), (row, (col+1) mod width) and (row, (col+2) mod width)
\* and leaves every other cell unchanged.
C5_GliderModular ==
    (last.op = "create_glider" /\ InGrid(last.row, last.col))
        => /\ ~fault
           /\ cells = [i \in Indices |->
                          IF \E dc \in 0..2 : i = TorusIndex(last.row, last.col, 0, dc)
                          THEN Alive
                          ELSE prev[i]]

====
